---- MODULE Spec2Model ----
(***************************************************************************)
(* Smart Trippy API (src/main.py): the mock itinerary generator and the    *)
(* HTTP handlers around it, as a state machine.  One action per route;     *)
(* every handler runs to completion in one step (a handler performs at     *)
(* most one store operation, so finer interleavings add no behaviour).     *)
(*                                                                         *)
(* Representation of Python values                                         *)
(*   Optional[T]   None is <<>>, a present value x is <<x>>                *)
(*   date          its proleptic ordinal (date.toordinal()), an integer in *)
(*                 MinOrdinal..MaxOrdinal; arithmetic leaving that range   *)
(*                 raises OverflowError, as datetime.date does             *)
(*   str           text that is split, joined or linked is the sequence of *)
(*                 its space-separated words ("New York" is                *)
(*                 <<"New", "York">>, the empty string is <<"">>), so that *)
(*                 a + " " + b is a \o b; other text is a TLA+ string      *)
(*   float         prices are whole dollars                                *)
(***************************************************************************)
EXTENDS Integers, Sequences, FiniteSets, TLC

VARIABLES today, db, store, req, resp, calls

vars == <<today, db, store, req, resp, calls>>

-----------------------------------------------------------------------------
(* Bounds of the model *)

\* date.today() of the first request (2026-11-02 as an ordinal)
Today0 == 739922
\* the clock advances over at most this many days
MaxDays == 1
\* supplied end dates lie at most this many days after the start
MaxSpan == 5
\* supplied end dates lie at most this many days before the start
MaxBack == 2
\* the collection holds at most this many saved trips
MaxDocs == 2

-----------------------------------------------------------------------------
(* Python values *)

None == <<>>
Some(x) == <<x>>

Ok(v) == [ok |-> TRUE, val |-> v]
Raise(e) == [ok |-> FALSE, err |-> e]

\* date.min.toordinal() and date.max.toordinal()
MinOrdinal == 1
MaxOrdinal == 3652059

\* date + timedelta(days=k)
DateAdd(d, k) ==
    IF d + k >= MinOrdinal /\ d + k <= MaxOrdinal
    THEN Ok(d + k)
    ELSE Raise("OverflowError")

\* sep.join(words)
RECURSIVE Join(_, _)
Join(words, sep) ==
    IF Len(words) = 0 THEN ""
    ELSE IF Len(words) = 1 THEN words[1]
    ELSE words[1] \o sep \o Join(Tail(words), sep)

\* the text of a string held as its words
Text(s) == Join(s, " ")

\* bool(s) of a str
StrTruthy(s) == s # <<"">>

\* bool(x) of an Optional[str] held as a TLA+ string
OptTruthy(x) == x # None /\ x[1] # ""

-----------------------------------------------------------------------------
(* Models / Schemas *)

ItemFields ==
    {"day", "type", "title", "description", "location", "start_time",
     "end_time", "price", "currency", "link", "available", "vendor"}

\* a model whose currency defaults to None
ItemDefaults_NoCurrency ==
    [description |-> None, location |-> None, start_time |-> None,
     end_time |-> None, price |-> None, currency |-> None,
     link |-> None, available |-> TRUE, vendor |-> None]

\* the defaults of the fields a caller may leave out
ItemDefaults ==
    [description |-> None, location |-> None, start_time |-> None,
     end_time |-> None, price |-> None, currency |-> Some("USD"),
     link |-> None, available |-> TRUE, vendor |-> None]

\* ItineraryItem(**kw): the fields given, the others at their defaults
ItineraryItem(kw) ==
    [f \in ItemFields |-> IF f \in DOMAIN kw THEN kw[f] ELSE ItemDefaults[f]]

-----------------------------------------------------------------------------
(* Utility: mock availability aggregator *)

VENDORS ==
    << <<"Booking.com", "https://www.booking.com">>,
       <<"Airbnb", "https://www.airbnb.com">>,
       <<"Hotels.com", "https://www.hotels.com">>,
       <<"Expedia", "https://www.expedia.com">>,
       <<"Viator", "https://www.viator.com">>,
       <<"GetYourGuide", "https://www.getyourguide.com">> >>

\* VENDORS[k] with Python's 0-based index
VendorAt(k) == VENDORS[k + 1]

\* f"{vendor_base}/search?q={q.replace(' ', '+')}"
_mock_link(vendor_base, q) == vendor_base \o "/search?q=" \o Join(q, "+")

\* nights counted inclusively (end - start + 1)
ResolveDates_Inclusive(payload, now) ==
    LET start == IF payload.start_date # None
                 THEN Ok(payload.start_date[1])
                 ELSE DateAdd(now, 14)
    IN  IF ~start.ok THEN start
        ELSE
        LET end0 == IF payload.end_date # None
                    THEN Ok(payload.end_date[1])
                    ELSE DateAdd(start.val, 4)
        IN  IF ~end0.ok THEN end0
            ELSE
            LET nights0 == end0.val - start.val + 1
                end == IF nights0 <= 0 THEN DateAdd(start.val, 4) ELSE end0
            IN  IF ~end.ok THEN end
                ELSE Ok([start |-> start.val,
                         end |-> end.val,
                         nights |-> IF nights0 <= 0
                                    THEN end.val - start.val + 1
                                    ELSE nights0])

\* the normalisation tests nights < 0 instead of nights <= 0
ResolveDates_Strict(payload, now) ==
    LET start == IF payload.start_date # None
                 THEN Ok(payload.start_date[1])
                 ELSE DateAdd(now, 14)
    IN  IF ~start.ok THEN start
        ELSE
        LET end0 == IF payload.end_date # None
                    THEN Ok(payload.end_date[1])
                    ELSE DateAdd(start.val, 4)
        IN  IF ~end0.ok THEN end0
            ELSE
            LET nights0 == end0.val - start.val
                end == IF nights0 < 0 THEN DateAdd(start.val, 4) ELSE end0
            IN  IF ~end.ok THEN end
                ELSE Ok([start |-> start.val,
                         end |-> end.val,
                         nights |-> IF nights0 < 0
                                    THEN end.val - start.val
                                    ELSE nights0])

\* start, end and nights of the plan, or the exception the arithmetic raises
ResolveDates(payload, now) ==
    LET start == IF payload.start_date # None
                 THEN Ok(payload.start_date[1])
                 ELSE DateAdd(now, 14)
    IN  IF ~start.ok THEN start
        ELSE
        LET end0 == IF payload.end_date # None
                    THEN Ok(payload.end_date[1])
                    ELSE DateAdd(start.val, 4)
        IN  IF ~end0.ok THEN end0
            ELSE
            LET nights0 == end0.val - start.val
                end == IF nights0 <= 0 THEN DateAdd(start.val, 4) ELSE end0
            IN  IF ~end.ok THEN end
                ELSE Ok([start |-> start.val,
                         end |-> end.val,
                         nights |-> IF nights0 <= 0
                                    THEN end.val - start.val
                                    ELSE nights0])

\* the hotel of iteration i of "for i in range(2)"
HotelItem(payload, nights, i) ==
    LET v == VendorAt(i % Len(VENDORS))
        hotel_name == payload.destination \o <<"Boutique", "Hotel", ToString(i + 1)>>
    IN  ItineraryItem(
            [day |-> 1,
             type |-> "hotel",
             title |-> hotel_name,
             description |-> Some("Centrally located stay for "
                                  \o ToString(nights) \o " nights."),
             location |-> Some(payload.destination),
             price |-> Some(145 + i * 35),
             currency |-> Some("USD"),
             link |-> Some(_mock_link(v[2], hotel_name)),
             available |-> TRUE,
             vendor |-> Some(v[1])])

\* Hotels (only bookable)
HotelItems(payload, nights) ==
    <<HotelItem(payload, nights, 0), HotelItem(payload, nights, 1)>>

\* the rotation indexed by d instead of d + 2
ActivityItem_NoOffset(payload, d) ==
    LET v == VendorAt(d % Len(VENDORS))
    IN  ItineraryItem(
            [day |-> d,
             type |-> "activity",
             title |-> <<"Guided", "walking", "tour", "-", "Day", ToString(d)>>,
             description |-> Some("Highly rated experience with instant confirmation."),
             location |-> Some(payload.destination),
             price |-> Some(39),
             currency |-> Some("USD"),
             link |-> Some(_mock_link(v[2], payload.destination \o <<"walking", "tour">>)),
             available |-> TRUE,
             vendor |-> Some(v[1]),
             start_time |-> Some("10:00"),
             end_time |-> Some("12:00")])

\* the activity of day d
ActivityItem(payload, d) ==
    LET v == VendorAt((d + 2) % Len(VENDORS))
    IN  ItineraryItem(
            [day |-> d,
             type |-> "activity",
             title |-> <<"Guided", "walking", "tour", "-", "Day", ToString(d)>>,
             description |-> Some("Highly rated experience with instant confirmation."),
             location |-> Some(payload.destination),
             price |-> Some(39),
             currency |-> Some("USD"),
             link |-> Some(_mock_link(v[2], payload.destination \o <<"walking", "tour">>)),
             available |-> TRUE,
             vendor |-> Some(v[1]),
             start_time |-> Some("10:00"),
             end_time |-> Some("12:00")])

\* the restaurant of day d
RestaurantItem(payload, d) ==
    ItineraryItem(
        [day |-> d,
         type |-> "restaurant",
         title |-> <<"Cozy", "local", "restaurant", "-", "Day", ToString(d)>>,
         description |-> Some("Loved by locals. Reserve a table online."),
         location |-> Some(payload.destination),
         price |-> None,
         link |-> Some(_mock_link("https://www.opentable.com",
                                  payload.destination \o <<"dinner">>)),
         available |-> TRUE,
         vendor |-> Some("OpenTable"),
         start_time |-> Some("19:30")])

\* the loop as "for d in range(1, nights)": the last day is left out
RECURSIVE DayItems_SkipsLast(_, _, _, _)
DayItems_SkipsLast(payload, nights, d, items) ==
    IF d >= nights THEN items
    ELSE DayItems_SkipsLast(payload, nights, d + 1,
             items \o <<ActivityItem(payload, d), RestaurantItem(payload, d)>>)

\* the loop appending each day's restaurant before its activity
RECURSIVE DayItems_RestaurantFirst(_, _, _, _)
DayItems_RestaurantFirst(payload, nights, d, items) ==
    IF d >= nights + 1 THEN items
    ELSE DayItems_RestaurantFirst(payload, nights, d + 1,
             items \o <<RestaurantItem(payload, d), ActivityItem(payload, d)>>)

\* "for d in range(1, nights + 1)" from day d on, appending to items
RECURSIVE DayItems(_, _, _, _)
DayItems(payload, nights, d, items) ==
    IF d >= nights + 1 THEN items
    ELSE DayItems(payload, nights, d + 1,
                  items \o <<ActivityItem(payload, d), RestaurantItem(payload, d)>>)

Sources ==
    << [name |-> "Tripadvisor", url |-> "https://www.tripadvisor.com"],
       [name |-> "Viator", url |-> "https://www.viator.com"] >>

Summary(payload, nights) ==
    "Personalized " \o ToString(nights) \o "-night plan for "
    \o Text(payload.destination) \o ". "
    \o "Optimized for " \o ToString(payload.travelers) \o " traveler(s)"
    \o (IF OptTruthy(payload.style)
        THEN " with a " \o payload.style[1] \o " vibe" ELSE "")
    \o (IF OptTruthy(payload.budget)
        THEN " and " \o payload.budget[1] \o " budget." ELSE ".")

\* the PlanResponse of a request, or the exception raised on the way
_generate_mock_plan(payload, now) ==
    LET r == ResolveDates(payload, now)
    IN  IF ~r.ok THEN r
        ELSE Ok([destination |-> payload.destination,
                 start_date |-> r.val.start,
                 end_date |-> r.val.end,
                 nights |-> r.val.nights,
                 travelers |-> payload.travelers,
                 summary |-> Summary(payload, r.val.nights),
                 items |-> DayItems(payload, r.val.nights, 1,
                                    HotelItems(payload, r.val.nights)),
                 sources |-> Sources])

-----------------------------------------------------------------------------
(* The document store (module database): one collection, "trip" *)

\* create_document("trip", doc): one insert; the store assigns the identifier
create_document(coll, doc) ==
    LET id == Len(coll) + 1
    IN  [coll |-> Append(coll, [_id |-> id] @@ doc), inserted_id |-> ToString(id)]

\* get_documents("trip", limit=limit): copies of the first limit documents
get_documents(coll, limit) ==
    SubSeq(coll, 1, IF limit < Len(coll) THEN limit ELSE Len(coll))

\* db.list_collection_names()
list_collection_names(coll) == IF Len(coll) > 0 THEN <<"trip">> ELSE <<>>

-----------------------------------------------------------------------------
(* Requests *)

\* PlanRequest(destination, start_date, end_date, travelers, style, budget)
PlanRequest(destination, start_date, end_date, travelers, style, budget) ==
    [destination |-> destination, start_date |-> start_date,
     end_date |-> end_date, travelers |-> travelers,
     style |-> style, budget |-> budget]

\* supplied start dates: the first day of the calendar, the default start of
\* the first day of the clock, and the last days of the calendar
StartDates ==
    {MinOrdinal, Today0 + 14} \cup {MaxOrdinal - k : k \in 0..MaxSpan}

\* end dates from MaxBack days before a start to MaxSpan days after it
EndDatesOf(s) ==
    {d \in {s + k : k \in (0 - MaxBack)..MaxSpan} :
        d >= MinOrdinal /\ d <= MaxOrdinal}

\* the date fields of a request: each absent or supplied
DatePairs ==
    {<<None, None>>}
    \cup {<<None, Some(e)>> : e \in EndDatesOf(Today0 + 14)}
    \cup {<<Some(s), None>> : s \in StartDates}
    \cup UNION {{<<Some(s), Some(e)>> : e \in EndDatesOf(s)} : s \in StartDates}

\* requests that vary the dates, the destination, and the summary's clauses
PlanRequests ==
    {PlanRequest(<<"Paris">>, p[1], p[2], 1, None, None) : p \in DatePairs}
    \cup {PlanRequest(d, s, None, 1, None, None) :
            d \in {<<"">>, <<"New", "York">>},
            s \in {None, Some(Today0 + 14), Some(MaxOrdinal)}}
    \cup {PlanRequest(<<"Tokyo">>, None, None, 2, st, bu) :
            st \in {None, Some(""), Some("relaxed")},
            bu \in {None, Some("low")}}

\* the plan requests of the runs that exercise every route
PlanSamples ==
    {PlanRequest(<<"">>, None, None, 1, None, None),
     PlanRequest(<<"Paris">>, None, None, 1, None, None),
     PlanRequest(<<"Paris">>, Some(MaxOrdinal), None, 1, None, None),
     PlanRequest(<<"New", "York">>, Some(Today0 + 14), Some(Today0 + 16),
                 2, Some("relaxed"), Some("low"))}

\* the plans a client posts back to be saved: plans it was given earlier
SavedPlans ==
    {_generate_mock_plan(
        PlanRequest(d, None, Some(Today0 + 15), 1, None, None), Today0).val :
     d \in {<<"Paris">>, <<"New", "York">>}}

TripSaveRequests == [name : {"summer"}, plan : SavedPlans]

Limits == {1, 20}

\* plan.model_dump(): the model and its items as plain dicts
model_dump(plan) ==
    [f \in DOMAIN plan |->
        IF f = "items"
        THEN [i \in 1..Len(plan.items) |->
                 [g \in DOMAIN plan.items[i] |-> plan.items[i][g]]]
        ELSE plan[f]]

-----------------------------------------------------------------------------
(* State: today is date.today(), db and store the document store, req the
   request served last (with the day it was served), resp its response, and
   calls the generator and store operations its handler invoked *)

\* db of module database: None when no store is configured
NoStore == None

Init ==
    /\ today = Today0
    /\ db \in {NoStore, Some("trippy")}
    /\ store = <<>>
    /\ req = [op |-> "none", at |-> Today0]
    /\ resp = [status |-> 0]
    /\ calls = <<>>

\* HTTPException(status_code, detail)
HTTPException(status_code, detail) == [status |-> status_code, detail |-> detail]

\* an exception no handler catches: the framework answers 500
ServerError(e) == [status |-> 500, error |-> e]

Reply(body) == [status |-> 200, body |-> body]

-----------------------------------------------------------------------------
(* Routes *)

\* GET /
read_root ==
    /\ req' = [op |-> "root", at |-> today]
    /\ resp' = Reply([message |-> "Smart Trippy Backend is running"])
    /\ calls' = <<>>
    /\ UNCHANGED <<today, db, store>>

\* GET /api/hello
hello ==
    /\ req' = [op |-> "hello", at |-> today]
    /\ resp' = Reply([message |-> "Hello from Smart Trippy API"])
    /\ calls' = <<>>
    /\ UNCHANGED <<today, db, store>>

\* POST /api/plan
plan_trip(payload) ==
    /\ req' = [op |-> "plan", at |-> today, payload |-> payload]
    /\ IF ~StrTruthy(payload.destination)
       THEN /\ resp' = HTTPException(400, "Destination is required")
            /\ calls' = <<>>
       ELSE LET plan == _generate_mock_plan(payload, today)
            IN  /\ calls' = <<"_generate_mock_plan">>
                /\ resp' = IF plan.ok THEN Reply(plan.val) ELSE ServerError(plan.err)
    /\ UNCHANGED <<today, db, store>>

\* the save route without its check of db
save_trip_NoGuard(r) ==
    LET doc == [name |-> r.name,
                plan |-> model_dump(r.plan),
                created_at |-> today,
                updated_at |-> today]
        res == create_document(store, doc)
    IN  /\ req' = [op |-> "save", at |-> today, payload |-> r]
        /\ Len(store) < MaxDocs
        /\ calls' = <<"create_document">>
        /\ store' = res.coll
        /\ resp' = Reply([id |-> res.inserted_id, status |-> "saved"])
        /\ UNCHANGED <<today, db>>

\* POST /api/trips
save_trip(r) ==
    /\ req' = [op |-> "save", at |-> today, payload |-> r]
    /\ IF db = None
       THEN /\ resp' = HTTPException(503, "Database not available")
            /\ calls' = <<>>
            /\ store' = store
       ELSE LET doc == [name |-> r.name,
                        plan |-> model_dump(r.plan),
                        created_at |-> today,
                        updated_at |-> today]
                res == create_document(store, doc)
            IN  /\ Len(store) < MaxDocs
                /\ calls' = <<"create_document">>
                /\ store' = res.coll
                /\ resp' = Reply([id |-> res.inserted_id, status |-> "saved"])
    /\ UNCHANGED <<today, db>>

\* the list route stamping the documents it reads and writing them back
list_trips_Touches(limit) ==
    /\ req' = [op |-> "list", at |-> today, limit |-> limit]
    /\ IF db = None
       THEN /\ resp' = HTTPException(503, "Database not available")
            /\ calls' = <<>>
            /\ store' = store
       ELSE LET docs == get_documents(store, limit)
                touched == [i \in 1..Len(docs) |->
                               [docs[i] EXCEPT !.updated_at = today]]
                sanitized == [i \in 1..Len(docs) |->
                                 [touched[i] EXCEPT !._id = ToString(touched[i]._id)]]
            IN  /\ calls' = <<"get_documents">>
                /\ resp' = Reply([trips |-> sanitized])
                /\ store' = touched \o SubSeq(store, Len(docs) + 1, Len(store))
    /\ UNCHANGED <<today, db>>

\* GET /api/trips
list_trips(limit) ==
    /\ req' = [op |-> "list", at |-> today, limit |-> limit]
    /\ IF db = None
       THEN /\ resp' = HTTPException(503, "Database not available")
            /\ calls' = <<>>
       ELSE LET docs == get_documents(store, limit)
                sanitized == [i \in 1..Len(docs) |->
                                 [docs[i] EXCEPT !._id = ToString(docs[i]._id)]]
            IN  /\ calls' = <<"get_documents">>
                /\ resp' = Reply([trips |-> sanitized])
    /\ UNCHANGED <<today, db, store>>

\* GET /test; url_set and name_set: whether DATABASE_URL and DATABASE_NAME are
\* set, probe_ok: whether db.list_collection_names() returns
test_database(url_set, name_set, probe_ok) ==
    LET response0 ==
            [backend |-> "Running",
             database |-> "Not Available",
             connection_status |-> "Not Connected",
             collections |-> <<>>]
        response1 ==
            IF db # None
            THEN IF probe_ok
                 THEN [response0 EXCEPT
                         !.connection_status = "Connected",
                         !.collections = list_collection_names(store),
                         !.database = "Connected & Working"]
                 ELSE [response0 EXCEPT
                         !.connection_status = "Connected",
                         !.database = "Connected but Error"]
            ELSE [response0 EXCEPT !.database = "Available but not initialized"]
    IN  /\ req' = [op |-> "test", at |-> today]
        /\ calls' = IF db # None THEN <<"list_collection_names">> ELSE <<>>
        /\ resp' = Reply(response1 @@
                         [database_url |-> IF url_set THEN "Set" ELSE "Not Set",
                          database_name |-> IF name_set THEN "Set" ELSE "Not Set"])
        /\ UNCHANGED <<today, db, store>>

\* midnight passes: date.today() moves on one day
NextDay ==
    /\ today < Today0 + MaxDays
    /\ today' = today + 1
    /\ UNCHANGED <<db, store, req, resp, calls>>

\* every route, any order
Next ==
    \/ read_root
    \/ hello
    \/ \E payload \in PlanSamples : plan_trip(payload)
    \/ \E r \in TripSaveRequests : save_trip(r)
    \/ \E limit \in Limits : list_trips(limit)
    \/ \E url_set, name_set, probe_ok \in BOOLEAN :
          test_database(url_set, name_set, probe_ok)
    \/ NextDay

Spec == Init /\ [][Next]_vars

\* the plan route over the whole range of its requests
NextPlan ==
    \/ \E payload \in PlanRequests : plan_trip(payload)
    \/ NextDay

PlanSpec == Init /\ [][NextPlan]_vars

-----------------------------------------------------------------------------
(* Properties *)

\* the last request was a plan request, and the last one answered with a plan
PlanAsked == req.op = "plan"
PlanServed == req.op = "plan" /\ resp.status = 200

\* the start the generator resolves for a payload served on day at
ResolvedStart(payload, at) ==
    IF payload.start_date # None THEN payload.start_date[1] ELSE at + 14

\* both dates supplied, the end strictly after the start
OrderedDates(payload) ==
    /\ payload.start_date # None
    /\ payload.end_date # None
    /\ payload.end_date[1] > payload.start_date[1]

\* the end absent, or not strictly after the (supplied or default) start
EndNotAfterStart(payload, at) ==
    \/ payload.end_date = None
    \/ payload.end_date[1] <= ResolvedStart(payload, at)

ItemsOf(items, type, day) ==
    {i \in DOMAIN items : items[i].type = type /\ items[i].day = day}

\* C1: a plan request with a destination and both dates, the end strictly
\* after the start, is answered with a plan whose nights is exactly
\* end_date - start_date in days, whose dates are the supplied ones, and
\* which has exactly 2 + 2 * nights items.
C1_NightsExact ==
    (PlanAsked /\ StrTruthy(req.payload.destination) /\ OrderedDates(req.payload))
        => /\ resp.status = 200
           /\ resp.body.nights = req.payload.end_date[1] - req.payload.start_date[1]
           /\ resp.body.start_date = req.payload.start_date[1]
           /\ resp.body.end_date = req.payload.end_date[1]
           /\ Len(resp.body.items) = 2 + 2 * resp.body.nights

C1_Witness ==
    /\ PlanServed
    /\ OrderedDates(req.payload)
    /\ resp.body.nights = 3
    /\ Len(resp.body.items) = 8

\* C2 (as claimed): every plan request with a destination whose end date is
\* absent or not strictly after the start is answered with a plan normalized
\* to nights = 4 and end_date = start_date + 4 days, the start being the
\* supplied one or today + 14 days.
C2_AsClaimed ==
    (PlanAsked /\ StrTruthy(req.payload.destination)
       /\ EndNotAfterStart(req.payload, req.at))
        => /\ resp.status = 200
           /\ resp.body.nights = 4
           /\ resp.body.start_date = ResolvedStart(req.payload, req.at)
           /\ resp.body.end_date = resp.body.start_date + 4

\* the same for the starts that lie at least 4 days before date.max
C2_BeforeCalendarEnd ==
    (PlanAsked /\ StrTruthy(req.payload.destination)
       /\ EndNotAfterStart(req.payload, req.at)
       /\ ResolvedStart(req.payload, req.at) + 4 <= MaxOrdinal)
        => /\ resp.status = 200
           /\ resp.body.nights = 4
           /\ resp.body.start_date = ResolvedStart(req.payload, req.at)
           /\ resp.body.end_date = resp.body.start_date + 4

\* C3: every plan the generator returns has nights >= 1 and
\* nights = end_date - start_date, whichever dates were supplied.
C3_NightsPositive ==
    PlanServed
        => /\ resp.body.nights >= 1
           /\ resp.body.nights = resp.body.end_date - resp.body.start_date

C3_Witness ==
    /\ PlanServed
    /\ req.payload.start_date # None
    /\ req.payload.end_date # None
    /\ req.payload.end_date[1] <= req.payload.start_date[1]
    /\ resp.body.nights = 4

\* C4: in every plan, each day d of 1..nights has exactly one activity item
\* and exactly one restaurant item, and no activity or restaurant item has a
\* day outside 1..nights.
C4_OnePairPerDay ==
    PlanServed
        => LET items == resp.body.items
               nights == resp.body.nights
           IN  /\ \A d \in 1..nights :
                     /\ Cardinality(ItemsOf(items, "activity", d)) = 1
                     /\ Cardinality(ItemsOf(items, "restaurant", d)) = 1
               /\ \A i \in DOMAIN items :
                     items[i].type \in {"activity", "restaurant"}
                        => items[i].day >= 1 /\ items[i].day <= nights

C4_Witness ==
    /\ PlanServed
    /\ resp.body.nights = 5
    /\ Cardinality(ItemsOf(resp.body.items, "activity", 5)) = 1

\* C5: the items are in generation order: the first two items are the only
\* hotel items, both on day 1, and after them come, for d = 1..nights in
\* ascending order, the activity of day d directly followed by the
\* restaurant of day d.
C5_GenerationOrder ==
    PlanServed
        => LET items == resp.body.items
               nights == resp.body.nights
           IN  /\ Len(items) = 2 + 2 * nights
               /\ \A i \in DOMAIN items : items[i].type = "hotel" <=> i <= 2
               /\ \A i \in 1..2 : items[i].day = 1
               /\ \A d \in 1..nights :
                     /\ items[2 * d + 1].type = "activity"
                     /\ items[2 * d + 1].day = d
                     /\ items[2 * d + 2].type = "restaurant"
                     /\ items[2 * d + 2].day = d

C5_Witness ==
    /\ PlanServed
    /\ resp.body.nights = 2
    /\ resp.body.items[5].type = "activity"
    /\ resp.body.items[6].type = "restaurant"

\* C6 (as claimed): every hotel and activity item has currency "USD" and a
\* positive price, and every restaurant item has neither a price nor a
\* currency.
C6_AsClaimed ==
    PlanServed
        => \A i \in DOMAIN resp.body.items :
              LET it == resp.body.items[i]
              IN  /\ it.type \in {"hotel", "activity"}
                     => /\ it.currency = Some("USD")
                        /\ it.price # None
                        /\ it.price[1] > 0
                  /\ it.type = "restaurant"
                     => it.price = None /\ it.currency = None

\* C6 (amended): every hotel and activity item has currency "USD" and a
\* positive price; every restaurant item has no price, and its currency is
\* the model's default, "USD".
C6_RestaurantDefaultCurrency ==
    PlanServed
        => \A i \in DOMAIN resp.body.items :
              LET it == resp.body.items[i]
              IN  /\ it.type \in {"hotel", "activity"}
                     => /\ it.currency = Some("USD")
                        /\ it.price # None
                        /\ it.price[1] > 0
                  /\ it.type = "restaurant"
                     => it.price = None /\ it.currency = Some("USD")

C6_Witness ==
    /\ PlanServed
    /\ \E i \in DOMAIN resp.body.items :
          /\ resp.body.items[i].type = "restaurant"
          /\ resp.body.items[i].price = None
          /\ resp.body.items[i].currency = Some("USD")

\* C7 (as claimed): a plan request with an empty destination is rejected
\* with 400 before the generator is invoked; a plan request with a non-empty
\* destination never errors and is answered 200 with the generator's result.
C7_AsClaimed ==
    PlanAsked
        => IF ~StrTruthy(req.payload.destination)
           THEN /\ resp.status = 400
                /\ calls = <<>>
                /\ "body" \notin DOMAIN resp
           ELSE /\ resp.status = 200
                /\ calls = <<"_generate_mock_plan">>
                /\ resp.body.destination = req.payload.destination

\* the rejection half of C7 alone
C7_EmptyRejected ==
    (PlanAsked /\ ~StrTruthy(req.payload.destination))
        => /\ resp.status = 400
           /\ calls = <<>>
           /\ "body" \notin DOMAIN resp

\* C8: with no document store configured, the save and the list routes
\* answer 503 without invoking any store operation, and the store stays as
\* it was.
C8_NoStoreUnavailable ==
    db = None
        => /\ store = <<>>
           /\ req.op \in {"save", "list"}
                 => resp.status = 503 /\ calls = <<>>

C8_Witness ==
    /\ db = None
    /\ req.op = "save"
    /\ resp.status = 503

\* C9: in every step, the store changes only in a successful save, which
\* invokes create_document once and appends exactly one record, leaving the
\* records saved before as they were; every successful save does so, and
\* plan, list and diagnostic requests leave the store unchanged.
C9_OnlySaveWrites ==
    [][ /\ store' # store
           => /\ req'.op = "save"
              /\ resp'.status = 200
              /\ calls' = <<"create_document">>
              /\ Len(store') = Len(store) + 1
              /\ SubSeq(store', 1, Len(store)) = store
        /\ (today' = today /\ req'.op = "save" /\ resp'.status = 200)
           => Len(store') = Len(store) + 1
        /\ (today' = today /\ req'.op \in {"root", "hello", "plan", "list", "test"})
           => store' = store ]_vars

C9_Witness ==
    /\ Len(store) = 2
    /\ req.op = "list"
    /\ resp.status = 200
    /\ Len(resp.body.trips) = 2

\* C10: hotel n (n = 1, 2) has the vendor at index (n - 1) mod N of VENDORS,
\* the activity of day d the vendor at index (d + 2) mod N, an index within
\* the list for every d (wrapping to 0 at d = N - 2), and every restaurant
\* the vendor "OpenTable", whatever the destination.
C10_VendorRotation ==
    PlanServed
        => LET items == resp.body.items
               N == Len(VENDORS)
           IN  /\ \A n \in 1..2 : items[n].vendor = Some(VENDORS[((n - 1) % N) + 1][1])
               /\ \A i \in DOMAIN items :
                     /\ items[i].type = "activity"
                        => /\ (items[i].day + 2) % N \in 0..(N - 1)
                           /\ items[i].vendor
                                = Some(VENDORS[((items[i].day + 2) % N) + 1][1])
                           /\ items[i].day = 1 => items[i].vendor = Some("Expedia")
                           /\ items[i].day = N - 2
                                 => items[i].vendor = Some("Booking.com")
                     /\ items[i].type = "restaurant"
                        => items[i].vendor = Some("OpenTable")

C10_Witness ==
    /\ PlanServed
    /\ req.payload.destination = <<"New", "York">>
    /\ \E i \in DOMAIN resp.body.items :
          /\ resp.body.items[i].type = "activity"
          /\ resp.body.items[i].day + 2 >= Len(VENDORS)
          /\ resp.body.items[i].vendor = Some("Booking.com")

====
